---------------------------- MODULE Spec2Model ----------------------------
(***************************************************************************)
(* Model of the WhatsApp loan-consultation bot:                            *)
(*   - ElestioLoanBot (enhanced_bot_with_rag.py): webhook orchestrator,    *)
(*     conversation store access, response generator, message dispatcher;  *)
(*   - DatabaseManager / ConversationTracker (database_setup.py);          *)
(*   - SimpleLoanRAG (simple_rag_system.py).                               *)
(*                                                                         *)
(* External services are the environment.  The PostgreSQL server is        *)
(* reachable or not (dbUp); a connection handle is "none" (Python None),   *)
(* "ok" (an open connection) or "broken" (a connection object whose server *)
(* side is gone: every statement on it raises).  Apart from that a single  *)
(* statement may fail on an open connection (the `fail` inputs).  The two  *)
(* outbound HTTP calls answer with one of a few outcomes.  datetime.now()  *)
(* is a clock that has advanced between any two inserts.                   *)
(* Python strings that are only compared are TLA+ strings; strings whose   *)
(* characters matter (addresses, queries) are sequences of characters.     *)
(***************************************************************************)
EXTENDS Integers, Sequences, FiniteSets, TLC

VARIABLES
    dbUp,           \* the database server accepts connections
    db_conn,        \* ElestioLoanBot.db_conn
    connection,     \* DatabaseManager.connection
    conversations,  \* the rows of table `conversations`, in insertion order
    clock,          \* the value the next datetime.now() returns
    openai_api_key, \* ElestioLoanBot.openai_api_key is set
    whatsapp_token, \* ElestioLoanBot.whatsapp_token is set
    last,           \* the operation just run, its inputs and what it returned
    failed,         \* per component: its latest database operation failed
    rag             \* the SimpleLoanRAG object

vars == <<dbUp, db_conn, connection, conversations, clock, openai_api_key,
          whatsapp_token, last, failed, rag>>

-----------------------------------------------------------------------------
(* Bounds of the model *)

MaxRows == 2        \* rows the table may hold
MaxLimit == 2       \* largest LIMIT a direct history query is given
MaxMessages == 2    \* messages carried by one inbound event

-----------------------------------------------------------------------------
(* Values *)

Null == "NULL"      \* Python None / SQL NULL

Min(a, b) == IF a <= b THEN a ELSE b

RECURSIVE Reverse(_)
Reverse(s) == IF s = <<>> THEN <<>> ELSE Append(Reverse(Tail(s)), Head(s))

Suffix == <<"@", "s", ".", "w", "h", "a", "t", "s", "a", "p", "p", ".", "n", "e", "t">>

\* str.endswith
EndsWith(s, suf) ==
    /\ Len(s) >= Len(suf)
    /\ SubSeq(s, Len(s) - Len(suf) + 1, Len(s)) = suf

Phone1 == <<"6", "0", "1">>
Phone2 == <<"6", "5">> \o Suffix
Phones == {Phone1, Phone2}

Texts == {"hi", "rates?"}
Replies == {"ok-reply"}
Clients == {"client_001", "client_002"}

client_id == "client_001"

ConfigFallback ==
    "Hello! I'm your Malaysian Loan consultant. I'm currently being configured. Please try again soon!"
TechFallback ==
    "Sorry, I'm experiencing technical difficulties. Please try again."

OpenAiUrl == "https://api.openai.com/v1/chat/completions"
WhapiUrl == "https://gate.whapi.cloud/messages/text"

\* what the completion endpoint does with one request
CompletionOutcomes ==
    {[kind |-> "ok", content |-> r] : r \in Replies}
        \cup {[kind |-> k, content |-> Null] :
                k \in {"non200", "timeout", "network", "badjson"}}

\* what the messaging gateway does with one request: a status code, or the
\* request raises
GatewayOutcomes ==
    {[kind |-> "status", code |-> c] : c \in {200, 201, 400, 500}}
        \cup {[kind |-> "raises", code |-> 0]}

-----------------------------------------------------------------------------
(* Conversation store: SQL over table `conversations` *)

Row(client, phone, name, message, response, ts) ==
    [client_id |-> client, phone_number |-> phone, customer_name |-> name,
     message_text |-> message, response_text |-> response, timestamp |-> ts]

\* WHERE phone_number = %s AND client_id = %s
Where(table, phone, client) ==
    {i \in 1..Len(table) :
        table[i].phone_number = phone /\ table[i].client_id = client}

\* ORDER BY timestamp ASC
RECURSIVE OrderByTimestampAsc(_, _)
OrderByTimestampAsc(table, I) ==
    IF I = {} THEN <<>>
    ELSE LET m == CHOOSE i \in I :
                    \A j \in I : table[i].timestamp <= table[j].timestamp
         IN <<table[m]>> \o OrderByTimestampAsc(table, I \ {m})

\* ORDER BY timestamp DESC over the rows with indices I
RECURSIVE OrderByTimestampDesc(_, _)
OrderByTimestampDesc(table, I) ==
    IF I = {} THEN <<>>
    ELSE LET m == CHOOSE i \in I :
                    \A j \in I : table[j].timestamp <= table[i].timestamp
         IN <<table[m]>> \o OrderByTimestampDesc(table, I \ {m})

\* LIMIT n
Limit(rows, n) == SubSeq(rows, 1, Min(n, Len(rows)))

\* the statement succeeds on an open connection unless it fails
StatementOk(handle, fail) == handle = "ok" /\ ~fail


-----------------------------------------------------------------------------
(* ElestioLoanBot.  The bot's view of the world is the record            *)
(* st = [db_conn, conversations, clock]; each method returns the new one. *)

\* psycopg2.connect succeeds iff the server is reachable
init_database(up) == IF up THEN "ok" ELSE "none"

\* a save that fills response_text as well
save_conversation_with_reply(st, up, fail, phone_number, message_text) ==
    LET conn == IF st.db_conn = "none" THEN init_database(up) ELSE st.db_conn
    IN  IF conn = "none" \/ ~StatementOk(conn, fail)
        THEN [st EXCEPT !.db_conn = "none"]
        ELSE [db_conn |-> conn,
              conversations |->
                  Append(st.conversations,
                         Row(client_id, phone_number, Null, message_text,
                             message_text, st.clock)),
              clock |-> st.clock + 1]

save_conversation(st, up, fail, phone_number, message_text) ==
    LET conn == IF st.db_conn = "none" THEN init_database(up) ELSE st.db_conn
    IN  IF conn = "none"
        THEN [st EXCEPT !.db_conn = "none"]
        ELSE IF StatementOk(conn, fail)
        THEN [db_conn |-> conn,
              conversations |->
                  Append(st.conversations,
                         Row(client_id, phone_number, Null, message_text, Null,
                             st.clock)),
              clock |-> st.clock + 1]
        ELSE [st EXCEPT !.db_conn = "none"]

\* SELECT message_text, response_text, timestamp
BotColumns(row) ==
    [message_text |-> row.message_text, response_text |-> row.response_text,
     timestamp |-> row.timestamp]

BotSelect(table, phone_number, limit) ==
    LET rows == Limit(OrderByTimestampDesc(table,
                          Where(table, phone_number, client_id)), limit)
    IN  [i \in 1..Len(rows) |-> BotColumns(rows[i])]

get_conversation_history(st, fail, phone_number, limit) ==
    IF st.db_conn = "none"
    THEN [db_conn |-> "none", history |-> <<>>]
    ELSE IF StatementOk(st.db_conn, fail)
    THEN [db_conn |-> st.db_conn,
          history |-> Reverse(BotSelect(st.conversations, phone_number, limit))]
    ELSE [db_conn |-> "none", history |-> <<>>]

\* the lines of the prompt, joined by "\n" in the code
RECURSIVE HistoryLines(_)
HistoryLines(history) ==
    IF history = <<>> THEN <<>>
    ELSE LET h == Head(history)
         IN  <<[line |-> "Customer", text |-> h.message_text]>>
                \o (IF h.response_text # Null /\ h.response_text # ""
                    THEN <<[line |-> "Assistant", text |-> h.response_text]>>
                    ELSE <<>>)
                \o HistoryLines(Tail(history))

build_prompt(history, current_message) ==
    (IF history # <<>>
     THEN <<[line |-> "Recent conversation history:", text |-> ""]>>
            \o HistoryLines(history)
     ELSE <<>>)
        \o <<[line |-> "Current message", text |-> current_message],
             [line |-> "Please respond as a Malaysian loan consultant.",
              text |-> ""]>>

HistoryLimit == 5

\* a handler that lets a failed request through
GenerateCatchesOnlyStatus(completion) == completion.kind = "badjson"

\* what the body of the try block does with the completion's answer: the
\* reply on 200 with a well-formed body, the fixed sentence on another status,
\* and an exception (timeout, network error, malformed body) otherwise
CompletionRaises(completion) == completion.kind \notin {"ok", "non200"}

\* `except Exception` around the whole body: nothing raised inside leaves
\* generate_response
GenerateCatches(completion) == TRUE

generate_response(st, key, hist_fail, completion, phone_number, message_text) ==
    IF ~key
    THEN [db_conn |-> st.db_conn, raised |-> FALSE, ret |-> ConfigFallback,
          requests |-> <<>>, history |-> <<>>]
    ELSE LET h == get_conversation_history(st, hist_fail, phone_number,
                                           HistoryLimit)
             prompt == build_prompt(h.history, message_text)
             req == [url |-> OpenAiUrl, prompt |-> prompt]
         IN  [db_conn |-> h.db_conn,
              raised |-> CompletionRaises(completion)
                         /\ ~GenerateCatches(completion),
              ret |-> IF CompletionRaises(completion)
                      THEN IF GenerateCatches(completion) THEN ConfigFallback
                           ELSE Null
                      ELSE IF completion.kind = "ok" THEN completion.content
                      ELSE TechFallback,
              requests |-> <<req>>,
              history |-> h.history]

\* a normalization that appends the suffix to every recipient
NormalizeAlways(phone_number) == phone_number \o Suffix

\* the recipient address put in the request
Normalize(phone_number) ==
    IF ~EndsWith(phone_number, Suffix) THEN phone_number \o Suffix
    ELSE phone_number

\* a gateway status check that takes every code below 500 for success
SuccessStatusBelow500(code) == code < 500

\* `response.status_code == 200 or response.status_code == 201`
SuccessStatus(code) == code = 200 \/ code = 201

\* `except Exception` around the whole body of send_whatsapp_message
SendCatches(gateway) == TRUE

send_whatsapp_message(token, gateway, phone_number, message) ==
    IF ~token
    THEN [raised |-> FALSE, ret |-> FALSE, requests |-> <<>>]
    ELSE [raised |-> gateway.kind = "raises" /\ ~SendCatches(gateway),
          ret |-> gateway.kind = "status" /\ SuccessStatus(gateway.code),
          requests |-> <<[url |-> WhapiUrl, to |-> Normalize(phone_number),
                          body |-> message]>>]

-----------------------------------------------------------------------------
(* DatabaseManager and ConversationTracker (database_setup.py) *)

\* DatabaseManager.connect
connect(up) == IF up THEN "ok" ELSE "none"

\* DatabaseManager.execute_query: the handle afterwards, and whether the
\* statement ran (the result is not None)
execute_query(conn, up, fail) ==
    LET c == IF conn = "none" THEN connect(up) ELSE conn
    IN  IF c = "none" THEN [connection |-> "none", ok |-> FALSE]
        ELSE [connection |-> c, ok |-> StatementOk(c, fail)]

\* ConversationTracker.save_conversation
tracker_save_conversation(st, up, fail, client, phone, message, response, name) ==
    LET q == execute_query(st.db_conn, up, fail)
    IN  IF q.ok
        THEN [db_conn |-> q.connection,
              conversations |->
                  Append(st.conversations,
                         Row(client, phone, name, message, response,
                             st.clock)),
              clock |-> st.clock + 1,
              ret |-> TRUE]
        ELSE [db_conn |-> q.connection, conversations |-> st.conversations,
              clock |-> st.clock, ret |-> FALSE]

\* SELECT message_text, response_text, timestamp, customer_name
TrackerColumns(row) ==
    [message_text |-> row.message_text, response_text |-> row.response_text,
     timestamp |-> row.timestamp, customer_name |-> row.customer_name]

TrackerSelect(table, phone_number, client, limit) ==
    LET rows == Limit(OrderByTimestampDesc(table,
                          Where(table, phone_number, client)), limit)
    IN  [i \in 1..Len(rows) |-> TrackerColumns(rows[i])]

\* ConversationTracker.get_conversation_history: `results or []`
tracker_get_conversation_history(st, up, fail, phone_number, client, limit) ==
    LET q == execute_query(st.db_conn, up, fail)
    IN  [db_conn |-> q.connection,
         ok |-> q.ok,
         history |-> IF q.ok
                     THEN TrackerSelect(st.conversations, phone_number, client,
                                        limit)
                     ELSE <<>>]

-----------------------------------------------------------------------------
(* Webhook orchestrator *)

Msg(fm, from, body, text) ==
    [from_me |-> fm, from |-> from, body |-> body, text |-> text]

Absent == [kind |-> "absent", body |-> ""]
Scalar == [kind |-> "scalar", body |-> ""]
Dict(b) == [kind |-> "dict", body |-> b]

\* the first message of a payload, one of each shape the handler tells
\* apart; an absent key is the default .get() gives it
Messages ==
    {Msg(FALSE, Phone1, "hi", Absent),   \* text at `body`
     Msg(FALSE, Phone2, "", Dict("hi")), \* text at `text.body`
     Msg(TRUE, Phone1, "hi", Absent),    \* self-sent
     Msg(TRUE, <<>>, "", Scalar),        \* self-sent, malformed
     Msg(FALSE, <<>>, "hi", Absent),     \* no sender
     Msg(FALSE, Phone1, "", Dict("")),   \* empty text in both places
     Msg(FALSE, Phone1, "", Absent),     \* no text at all
     Msg(FALSE, Phone1, "", Scalar)}     \* `text` is no dict

\* the messages an event may carry after its first one
LaterMessages == {Msg(FALSE, Phone2, "hi", Absent)}

RECURSIVE Payloads(_)
Payloads(n) ==
    IF n = 0 THEN {<<>>}
    ELSE IF n = 1 THEN {<<m>> : m \in Messages}
    ELSE {Append(p, m) : p \in Payloads(n - 1), m \in LaterMessages}

Events ==
    {[messages |-> p] : p \in UNION {Payloads(n) : n \in 0..MaxMessages}}

\* `if not messages`
NoMessages(messages) == messages = <<>>

\* a handler that skips nothing
FromMeNever(message) == FALSE

\* `if message.get('from_me', False)`
FromMe(message) == message.from_me

\* message.get('body', ''), else message.get('text', {}).get('body', '');
\* .get on a `text` that is no dict raises
ExtractText(message) ==
    IF message.body # "" THEN [raised |-> FALSE, text |-> message.body]
    ELSE IF message.text.kind = "scalar" THEN [raised |-> TRUE, text |-> ""]
    ELSE [raised |-> FALSE, text |-> message.text.body]

\* a validity test that asks for the text alone
ValidMessageTextOnly(message_text, phone_number) == message_text # ""

\* `if message_text and phone_number`
ValidMessage(message_text, phone_number) ==
    message_text # "" /\ phone_number # <<>>

Quiet(st, status) ==
    [st |-> st, result |-> [status |-> status, response |-> Null],
     trace |-> <<>>, requests |-> <<>>]

SaveCall(st, st1, phone_number, message_text) ==
    [op |-> "save_conversation", phone_number |-> phone_number,
     text |-> message_text,
     ok |-> Len(st1.conversations) > Len(st.conversations),
     db_after |-> st1.db_conn]

GenerateCall(g, env, phone_number, message_text) ==
    [op |-> "generate_response", phone_number |-> phone_number,
     text |-> message_text,
     ok |-> g.requests # <<>> /\ env.completion.kind = "ok",
     outcome |-> IF g.requests = <<>> THEN "not_called"
                 ELSE env.completion.kind,
     history |-> g.history, raised |-> g.raised, ret |-> g.ret]

SendCall(d, env, phone_number, message) ==
    [op |-> "send_whatsapp_message", phone_number |-> phone_number,
     text |-> message, ok |-> d.ret, raised |-> d.raised,
     outcome |-> IF d.requests = <<>> THEN "not_called" ELSE env.gateway.kind,
     code |-> IF d.requests = <<>> THEN 0 ELSE env.gateway.code]

\* `except Exception` of process_webhook: the event ends with status error
Caught(st, trace, requests) ==
    [st |-> st, result |-> [status |-> "error", response |-> Null],
     trace |-> trace, requests |-> requests]

\* lines 94-102, after the save left the bot in st1: generate, dispatch,
\* return the generated text
GenerateAndSendEcho(st, st1, key, token, env, phone_number, message_text) ==
    LET g == generate_response(st1, key, env.hist_fail, env.completion,
                               phone_number, message_text)
        d == send_whatsapp_message(token, env.gateway, phone_number,
                                   message_text)
        st2 == [st1 EXCEPT !.db_conn = g.db_conn]
        t1 == <<SaveCall(st, st1, phone_number, message_text),
                GenerateCall(g, env, phone_number, message_text)>>
    IN  [st |-> st2,
         result |-> [status |-> "processed", response |-> g.ret],
         trace |-> Append(t1, SendCall(d, env, phone_number, message_text)),
         requests |-> g.requests \o d.requests]

GenerateAndSend(st, st1, key, token, env, phone_number, message_text) ==
    LET g == generate_response(st1, key, env.hist_fail, env.completion,
                               phone_number, message_text)
        d == send_whatsapp_message(token, env.gateway, phone_number, g.ret)
        st2 == [st1 EXCEPT !.db_conn = g.db_conn]
        t1 == <<SaveCall(st, st1, phone_number, message_text),
                GenerateCall(g, env, phone_number, message_text)>>
    IN  IF g.raised THEN Caught(st2, t1, g.requests)
        ELSE IF d.raised
        THEN Caught(st2, Append(t1, SendCall(d, env, phone_number, g.ret)),
                    g.requests \o d.requests)
        ELSE [st |-> st2,
              result |-> [status |-> "processed", response |-> g.ret],
              trace |-> Append(t1, SendCall(d, env, phone_number, g.ret)),
              requests |-> g.requests \o d.requests]

\* a save that fails ends the event
HandleMessageAbort(st, up, key, token, env, phone_number, message_text) ==
    LET st1 == save_conversation(st, up, env.save_fail, phone_number,
                                 message_text)
    IN  IF Len(st1.conversations) = Len(st.conversations)
        THEN Caught(st1, <<SaveCall(st, st1, phone_number, message_text)>>,
                    <<>>)
        ELSE GenerateAndSend(st, st1, key, token, env, phone_number,
                             message_text)

\* lines 88-102: persist, generate, dispatch
HandleMessage(st, up, key, token, env, phone_number, message_text) ==
    GenerateAndSend(st,
                    save_conversation(st, up, env.save_fail, phone_number,
                                      message_text),
                    key, token, env, phone_number, message_text)

\* lines 73-104: the first message of the payload
HandleFirst(st, up, key, token, env, message) ==
    IF FromMe(message) THEN Quiet(st, "ignored")
    ELSE LET x == ExtractText(message)
         IN  IF x.raised THEN Caught(st, <<>>, <<>>)
             ELSE IF ValidMessage(x.text, message.from)
             THEN HandleMessage(st, up, key, token, env, message.from, x.text)
             ELSE Quiet(st, "no_valid_message")

\* the handler with a reconnect ahead of the emptiness test
process_webhook_reconnects(st, up, key, token, env, webhook_data) ==
    IF NoMessages(webhook_data.messages)
    THEN Quiet([st EXCEPT !.db_conn = IF @ = "none" THEN init_database(up)
                                      ELSE @],
               "no_message")
    ELSE HandleFirst(st, up, key, token, env, webhook_data.messages[1])

\* a handler that takes the last message of the payload
process_webhook_last(st, up, key, token, env, webhook_data) ==
    IF NoMessages(webhook_data.messages) THEN Quiet(st, "no_message")
    ELSE HandleFirst(st, up, key, token, env,
                     webhook_data.messages[Len(webhook_data.messages)])

process_webhook(st, up, key, token, env, webhook_data) ==
    IF NoMessages(webhook_data.messages) THEN Quiet(st, "no_message")
    ELSE HandleFirst(st, up, key, token, env, webhook_data.messages[1])

-----------------------------------------------------------------------------
(* State machine *)

BotState == [db_conn |-> db_conn, conversations |-> conversations,
             clock |-> clock]

NoRag == [embedding_model |-> FALSE]

\* no request is being served
Idle == [op |-> "idle"]

Init ==
    /\ dbUp \in BOOLEAN
    /\ db_conn = init_database(dbUp)
    /\ connection = init_database(dbUp)
    /\ conversations = <<>>
    /\ clock = 1
    /\ openai_api_key \in BOOLEAN
    /\ whatsapp_token \in BOOLEAN
    /\ last = Idle
    /\ failed = [bot |-> FALSE, tracker |-> FALSE]
    /\ rag = NoRag

NoCompletion == [kind |-> "non200", content |-> Null]
NoGateway == [kind |-> "raises", code |-> 0]

\* the environment's answers to the calls a handling can make: a statement
\* runs only on an open connection, the completion call needs the credential,
\* the gateway call needs the token
EnvsFor(st, up, key, token) ==
    [save_fail : IF st.db_conn = "ok" \/ (st.db_conn = "none" /\ up)
                 THEN BOOLEAN ELSE {FALSE},
     hist_fail : IF key /\ (st.db_conn = "ok" \/ (st.db_conn = "none" /\ up))
                 THEN BOOLEAN ELSE {FALSE},
     completion : IF key THEN CompletionOutcomes ELSE {NoCompletion},
     gateway : IF token THEN GatewayOutcomes ELSE {NoGateway}]

\* an event that ends before any downstream call needs no answer
Downstream(webhook_data) ==
    /\ ~NoMessages(webhook_data.messages)
    /\ ~FromMe(webhook_data.messages[1])
    /\ ~ExtractText(webhook_data.messages[1]).raised

\* the history statement of this handling ran and failed
HistoryFailed(r, env) ==
    /\ Len(r.trace) >= 2
    /\ r.trace[2].outcome # "not_called"
    /\ r.trace[1].db_after # "none"
    /\ r.st.db_conn = "none"

\* the paths a POST can name
Paths == {"/webhook", "/client/001/webhook", "/health"}

\* `if self.path == '/webhook' or self.path == '/client/001/webhook'`
WebhookPath(path) == path = "/webhook" \/ path = "/client/001/webhook"

\* do_POST, lines 297-301: the answer to a handled event
Respond(result) == [code |-> 200, body |-> result]

\* do_POST for a request that does not reach process_webhook: another path,
\* or a body that json.loads rejects (the except clause of do_POST)
Reject(path) ==
    IF WebhookPath(path)
    THEN [code |-> 500, body |-> [error |-> "str(e)"]]
    ELSE [code |-> 404, body |-> [error |-> "Not found"]]

\* one inbound event, handled to completion
ProcessWebhook ==
    /\ last = Idle
    /\ \E webhook_data \in Events :
      \E env \in IF Downstream(webhook_data)
                 THEN EnvsFor(BotState, dbUp, openai_api_key, whatsapp_token)
                 ELSE {[save_fail |-> FALSE, hist_fail |-> FALSE,
                        completion |-> NoCompletion, gateway |-> NoGateway]} :
        LET r == process_webhook(BotState, dbUp, openai_api_key,
                                 whatsapp_token, env, webhook_data)
        IN  /\ Len(r.st.conversations) <= MaxRows
            /\ db_conn' = r.st.db_conn
            /\ conversations' = r.st.conversations
            /\ clock' = r.st.clock
            /\ last' = [op |-> "process_webhook", webhook_data |-> webhook_data,
                        result |-> r.result, trace |-> r.trace,
                        requests |-> r.requests,
                        hist_failed |-> HistoryFailed(r, env),
                        http |-> Respond(r.result)]
            /\ UNCHANGED <<dbUp, connection, openai_api_key, whatsapp_token, failed,
                           rag>>

\* a POST that is answered without an event being handled
RejectPost ==
    /\ last = Idle
    /\ \E path \in Paths :
        last' = [op |-> "do_POST", path |-> path, http |-> Reject(path)]
    /\ UNCHANGED <<dbUp, db_conn, connection, conversations, clock,
                   openai_api_key, whatsapp_token, failed, rag>>

Broken(handle) == IF handle = "ok" THEN "broken" ELSE handle

\* the database server goes away: open connections are dead from now on
DbDown ==
    /\ last = Idle
    /\ dbUp
    /\ dbUp' = FALSE
    /\ db_conn' = Broken(db_conn)
    /\ connection' = Broken(connection)
    /\ UNCHANGED <<last, conversations, clock, openai_api_key, whatsapp_token,
                   failed, rag>>

\* the database server is back
DbUp ==
    /\ last = Idle
    /\ ~dbUp
    /\ dbUp' = TRUE
    /\ UNCHANGED <<last, db_conn, connection, conversations, clock,
                   openai_api_key, whatsapp_token, failed, rag>>

\* the caller has its answer; the next request can be served
Return ==
    /\ last # Idle
    /\ last' = Idle
    /\ UNCHANGED <<dbUp, db_conn, connection, conversations, clock,
                   openai_api_key, whatsapp_token, failed, rag>>

Next == ProcessWebhook \/ RejectPost \/ Return \/ DbDown \/ DbUp

Spec == Init /\ [][Next]_vars

-----------------------------------------------------------------------------
(* The conversation store used directly: the bot's two store methods and   *)
(* ConversationTracker's, on one table.                                    *)

Limits == 0..MaxLimit

TrackerState == [db_conn |-> connection, conversations |-> conversations,
                 clock |-> clock]

\* a statement can only fail or succeed on an open connection
Fails(handle, up) ==
    IF handle = "ok" \/ (handle = "none" /\ up) THEN BOOLEAN ELSE {FALSE}

\* ElestioLoanBot.save_conversation(phone_number, message_text)
BotSave ==
    /\ last = Idle
    /\ Len(conversations) < MaxRows
    /\ \E phone_number \in Phones, message_text \in Texts,
          fail \in Fails(db_conn, dbUp) :
        LET r == save_conversation(BotState, dbUp, fail, phone_number,
                                   message_text)
            ok == Len(r.conversations) > Len(conversations)
        IN  /\ db_conn' = r.db_conn
            /\ conversations' = r.conversations
            /\ clock' = r.clock
            /\ last' = [op |-> "save", who |-> "bot", client |-> client_id,
                        phone_number |-> phone_number, fail |-> fail,
                        after_failure |-> failed.bot, ok |-> ok]
            /\ failed' = [failed EXCEPT !.bot = ~ok]
    /\ UNCHANGED <<dbUp, connection, openai_api_key, whatsapp_token, rag>>

\* ElestioLoanBot.get_conversation_history(phone_number, limit)
BotHistory ==
    /\ last = Idle
    /\ \E phone_number \in Phones, limit \in Limits,
          fail \in Fails(db_conn, FALSE) :
        LET r == get_conversation_history(BotState, fail, phone_number, limit)
            ok == db_conn = "ok" /\ ~fail
        IN  /\ db_conn' = r.db_conn
            /\ last' = [op |-> "history", who |-> "bot", client |-> client_id,
                        phone_number |-> phone_number, limit |-> limit,
                        fail |-> fail, after_failure |-> failed.bot,
                        ok |-> ok, history |-> r.history]
            /\ failed' = [failed EXCEPT !.bot = ~ok]
    /\ UNCHANGED <<dbUp, connection, conversations, clock, openai_api_key,
                   whatsapp_token, rag>>

\* ConversationTracker.save_conversation(client_id, phone_number, ...)
TrackerSave ==
    /\ last = Idle
    /\ Len(conversations) < MaxRows
    /\ \E client \in Clients, phone_number \in Phones, message_text \in Texts,
          response_text \in Replies, fail \in Fails(connection, dbUp) :
        LET r == tracker_save_conversation(TrackerState, dbUp, fail, client,
                                           phone_number, message_text,
                                           response_text, Null)
        IN  /\ connection' = r.db_conn
            /\ conversations' = r.conversations
            /\ clock' = r.clock
            /\ last' = [op |-> "save", who |-> "tracker", client |-> client,
                        phone_number |-> phone_number, fail |-> fail,
                        after_failure |-> failed.tracker, ok |-> r.ret]
            /\ failed' = [failed EXCEPT !.tracker = ~r.ret]
    /\ UNCHANGED <<dbUp, db_conn, openai_api_key, whatsapp_token, rag>>

\* ConversationTracker.get_conversation_history(phone_number, client_id, limit)
TrackerHistory ==
    /\ last = Idle
    /\ \E client \in Clients, phone_number \in Phones, limit \in Limits,
          fail \in Fails(connection, dbUp) :
        LET r == tracker_get_conversation_history(TrackerState, dbUp, fail,
                                                  phone_number, client, limit)
        IN  /\ connection' = r.db_conn
            /\ last' = [op |-> "history", who |-> "tracker",
                        client |-> client, phone_number |-> phone_number,
                        limit |-> limit, fail |-> fail,
                        after_failure |-> failed.tracker, ok |-> r.ok,
                        history |-> r.history]
            /\ failed' = [failed EXCEPT !.tracker = ~r.ok]
    /\ UNCHANGED <<dbUp, db_conn, conversations, clock, openai_api_key,
                   whatsapp_token, rag>>

InitStore ==
    /\ Init
    /\ openai_api_key /\ whatsapp_token

NextStore ==
    BotSave \/ BotHistory \/ TrackerSave \/ TrackerHistory \/ Return
        \/ DbDown \/ DbUp

SpecStore == InitStore /\ [][NextStore]_vars

-----------------------------------------------------------------------------
(* SimpleLoanRAG (simple_rag_system.py) *)

MaxFiles == 2       \* files in the knowledge-base directory
MaxTopK == 3        \* largest top_k a search is given

Doc(title, content) == [title |-> title, content |-> content]

\* create_default_knowledge
default_docs ==
    <<Doc("Personal Loan Eligibility",
          "Malaysian personal loan eligibility requires: minimum age 18-21, maximum age 55-65, minimum monthly income RM2,000-3,000, employment period minimum 6 months, CTOS score above 600, debt service ratio below 60%."),
      Doc("Housing Loan Requirements",
          "Malaysian housing loan requires: minimum income RM3,000, down payment 10%-20%, maximum loan tenure 35 years, debt service ratio below 70%, property valuation report, legal fees 0.25%-1%."),
      Doc("Car Loan Guidelines",
          "Malaysian car loan guidelines: maximum 90% financing, tenure up to 9 years, minimum income RM2,500, age limit 65 years, comprehensive insurance required, road tax and registration fees."),
      Doc("CTOS Credit Report",
          "CTOS credit report shows payment history, outstanding debts, legal cases, directorship information. Score ranges: 300-850, above 700 excellent, 650-699 good, 600-649 fair, below 600 poor. Cost RM25 per report."),
      Doc("Required Documents",
          "Standard loan documents: IC copy front/back, latest 3 months salary slip, latest 6 months bank statement, EPF statement, employment letter, CTOS report. Additional for housing: property documents, valuation report.")>>

\* a file of the directory: a .json document, a .json object without the
\* `title`/`content` keys, a .json file that does not parse, or another file
FileKinds == {"doc", "nokeys", "unparsable", "other"}

RECURSIVE FileSeqs(_)
FileSeqs(n) ==
    IF n = 0 THEN {<<>>}
    ELSE FileSeqs(n - 1)
            \cup {Append(f, k) : f \in {g \in FileSeqs(n - 1) : Len(g) = n - 1},
                                 k \in FileKinds}

\* the directory at knowledge_base_path, as os.listdir enumerates it
Directories ==
    {[exists |-> FALSE, files |-> <<>>]}
        \cup {[exists |-> TRUE, files |-> f] : f \in FileSeqs(MaxFiles)}

\* json.load of a file: an object with the two keys, or without them
LoadedDoc(kind) ==
    IF kind = "doc" THEN Doc("Custom Note", "custom content")
    ELSE Doc(Null, Null)

\* load_documents_from_directory: the documents list
RECURSIVE LoadFrom(_, _)
LoadFrom(files, i) ==
    IF i > Len(files) THEN <<>>
    ELSE (IF files[i] \in {"doc", "nokeys"}
          THEN <<LoadedDoc(files[i])>> ELSE <<>>)
            \o LoadFrom(files, i + 1)

EmptyList == [kind |-> "list", rows |-> 0]

\* generate_embeddings: self.embeddings afterwards; it stays [] when there is
\* no model or no document, or when building the texts or encoding raises
generate_embeddings(embedding_model, documents, encode_ok) ==
    IF ~embedding_model \/ documents = <<>> THEN EmptyList
    ELSE IF encode_ok /\ \A i \in 1..Len(documents) : documents[i].title # Null
    THEN [kind |-> "ndarray", rows |-> Len(documents)]
    ELSE EmptyList

\* load_knowledge_base: the directory when it exists, else the defaults
load_knowledge_base(directory) ==
    IF directory.exists THEN LoadFrom(directory.files, 1) ELSE default_docs

\* SimpleLoanRAG.__init__; knowledge_base is the directory that
\* knowledge_base_path names
SimpleLoanRAG(model_ok, directory, encode_ok) ==
    LET documents == load_knowledge_base(directory)
    IN  [knowledge_base |-> directory,
         embedding_model |-> model_ok,
         documents |-> documents,
         embeddings |-> generate_embeddings(model_ok, documents, encode_ok)]

\* width of an all-MiniLM-L6-v2 embedding
EmbeddingDim == 384

\* bool() of self.embeddings: a list is true when non-empty; a numpy array
\* is false when empty, the truth of its element when it has one, and
\* raises ValueError when it has more
Truth(embeddings) ==
    IF embeddings.kind = "list" THEN
        IF embeddings.rows > 0 THEN "true" ELSE "false"
    ELSE IF embeddings.rows * EmbeddingDim = 0 THEN "false"
    ELSE IF embeddings.rows * EmbeddingDim = 1 THEN "true"
    ELSE "raises"

IsSpace(c) == c \in {" ", "\t", "\n"}

\* str.strip
RECURSIVE LStrip(_)
LStrip(q) == IF q # <<>> /\ IsSpace(Head(q)) THEN LStrip(Tail(q)) ELSE q

Strip(q) == Reverse(LStrip(Reverse(LStrip(q))))

Queries == {<<>>, <<" ">>, <<"l", "o", "a", "n">>, <<" ", "c", "a", "r">>}

\* similarities in hundredths
Scores == {10, 30, 50, 70}
Threshold == 30

\* np.argsort(similarities): an ascending order of the indices (the order
\* of equal scores is not fixed)
ArgSorts(similarities) ==
    LET n == Len(similarities)
    IN  {p \in [1..n -> 1..n] :
            /\ \A i, j \in 1..n : i # j => p[i] # p[j]
            /\ \A i, j \in 1..n :
                 i < j => similarities[p[i]] <= similarities[p[j]]}

\* a[-k:]
LastK(a, k) ==
    IF k = 0 THEN a
    ELSE SubSeq(a, (IF Len(a) > k THEN Len(a) - k ELSE 0) + 1, Len(a))

\* lines 125-135: top matches above the threshold
TopMatches(documents, similarities, order, top_k) ==
    LET top_indices == Reverse(LastK(order, top_k))
        Keep(idx) == similarities[idx] > Threshold
        kept == SelectSeq(top_indices, Keep)
    IN  [i \in 1..Len(kept) |->
            [document |-> documents[kept[i]],
             similarity |-> similarities[kept[i]]]]

\* search_knowledge: the guard of line 114 is outside the try block
search_knowledge(r, query, top_k, similarities, order) ==
    IF ~r.embedding_model THEN [raised |-> FALSE, results |-> <<>>]
    ELSE IF Truth(r.embeddings) = "raises"
    THEN [raised |-> TRUE, results |-> <<>>]
    ELSE IF Truth(r.embeddings) = "false" \/ Strip(query) = <<>>
    THEN [raised |-> FALSE, results |-> <<>>]
    ELSE [raised |-> FALSE,
          results |-> TopMatches(r.documents, similarities, order, top_k)]

\* the search reaches the ranking of lines 125-135
Ranks(r, query) ==
    /\ r.embedding_model
    /\ Truth(r.embeddings) = "true"
    /\ Strip(query) # <<>>

\* line 122: the similarity of each embedded document to the query, the
\* dot product of its stored embedding with the query's embedding
Similarities(r, query) ==
    IF r.embedding_model /\ r.embeddings.kind = "ndarray" /\ Strip(query) # <<>>
    THEN [1..r.embeddings.rows -> Scores]
    ELSE {<<>>}

\* line 125: the order np.argsort gives when the ranking is reached
Orders(r, query, similarities) ==
    IF Ranks(r, query) THEN ArgSorts(similarities) ELSE {<<>>}

\* top_k of the search made by get_relevant_context
ContextTopK == 2

NoInformation == <<"No specific information", " found in knowledge base.">>

\* the answer of the except clause of get_relevant_context
ErrorContext == <<"Error retrieving relevant information.">>

\* f"{doc['title']}: {doc['content']}"
ContextPart(doc) == <<doc.title, ": ", doc.content>>

\* "\\n\\n".join(context_parts)
RECURSIVE JoinParts(_, _)
JoinParts(results, i) ==
    IF i > Len(results) THEN <<>>
    ELSE (IF i > 1 THEN <<"\\n\\n">> ELSE <<>>)
            \o ContextPart(results[i].document)
            \o JoinParts(results, i + 1)

\* get_relevant_context: the results of the search and the context string
get_relevant_context(r, query, similarities, order) ==
    LET s == search_knowledge(r, query, ContextTopK, similarities, order)
    IN  [results |-> s.results,
         raised |-> s.raised,
         context |-> IF s.raised THEN ErrorContext
                     ELSE IF s.results = <<>> THEN NoInformation
                     ELSE JoinParts(s.results, 1)]

\* a reply below this number of words is extended
ShortReplyWords == 50

\* "No specific information" in relevant_context
MentionsNoInformation(context) ==
    \E i \in 1..Len(context) : context[i] = "No specific information"

\* a reply of n words
RECURSIVE Words(_)
Words(n) == IF n = 0 THEN <<>> ELSE Append(Words(n - 1), "word")

BaseResponses == {Words(0), Words(ShortReplyWords - 1), Words(ShortReplyWords)}

\* len(base_response.split())
WordCount(base_response) == Len(base_response)

AdditionalInformation == "\\n\\nAdditional information:\\n"

\* enhance_response_with_knowledge
enhance_response_with_knowledge(r, query, base_response, similarities, order) ==
    LET c == get_relevant_context(r, query, similarities, order)
    IN  [results |-> c.results,
         context |-> c.context,
         ret |-> IF MentionsNoInformation(c.context) THEN base_response
                 ELSE IF WordCount(base_response) < ShortReplyWords
                 THEN base_response \o <<AdditionalInformation>> \o c.context
                 ELSE base_response]

InitRag ==
    /\ dbUp = FALSE
    /\ db_conn = "none"
    /\ connection = "none"
    /\ conversations = <<>>
    /\ clock = 1
    /\ openai_api_key = FALSE
    /\ whatsapp_token = FALSE
    /\ last = Idle
    /\ failed = [bot |-> FALSE, tracker |-> FALSE]
    /\ rag \in {SimpleLoanRAG(m, d, e) :
                    m \in BOOLEAN, d \in Directories, e \in BOOLEAN}

\* rag_system.search_knowledge(query, top_k)
SearchKnowledge ==
    /\ last = Idle
    /\ \E query \in Queries, top_k \in 0..MaxTopK :
        \E similarities \in Similarities(rag, query) :
          \E order \in Orders(rag, query, similarities) :
            LET r == search_knowledge(rag, query, top_k, similarities, order)
            IN  last' = [op |-> "search_knowledge", query |-> query,
                         top_k |-> top_k, similarities |-> similarities,
                         raised |-> r.raised, results |-> r.results]
    /\ UNCHANGED <<dbUp, db_conn, connection, conversations, clock,
                   openai_api_key, whatsapp_token, failed, rag>>

\* rag_system.get_relevant_context(query)
GetRelevantContext ==
    /\ last = Idle
    /\ \E query \in Queries :
        \E similarities \in Similarities(rag, query) :
          \E order \in Orders(rag, query, similarities) :
            LET c == get_relevant_context(rag, query, similarities, order)
            IN  last' = [op |-> "get_relevant_context", query |-> query,
                         raised |-> c.raised, results |-> c.results,
                         context |-> c.context]
    /\ UNCHANGED <<dbUp, db_conn, connection, conversations, clock,
                   openai_api_key, whatsapp_token, failed, rag>>

\* rag_system.enhance_response_with_knowledge(query, base_response)
EnhanceResponse ==
    /\ last = Idle
    /\ \E query \in Queries, base_response \in BaseResponses :
        \E similarities \in Similarities(rag, query) :
          \E order \in Orders(rag, query, similarities) :
            LET e == enhance_response_with_knowledge(
                        rag, query, base_response, similarities, order)
            IN  last' = [op |-> "enhance_response_with_knowledge",
                         query |-> query, base_response |-> base_response,
                         results |-> e.results, context |-> e.context,
                         ret |-> e.ret]
    /\ UNCHANGED <<dbUp, db_conn, connection, conversations, clock,
                   openai_api_key, whatsapp_token, failed, rag>>

NextRag == SearchKnowledge \/ GetRelevantContext \/ EnhanceResponse \/ Return

SpecRag == InitRag /\ [][NextRag]_vars

-----------------------------------------------------------------------------
(* Properties of the webhook orchestrator and the response generator *)

Handled == last.op = "process_webhook"

First == last.webhook_data.messages[1]

\* the event just handled carries a first message that is not self-sent and
\* has a sender and a text
NormalPath ==
    /\ Handled
    /\ last.webhook_data.messages # <<>>
    /\ ~First.from_me
    /\ First.from # <<>>
    /\ \/ First.body # ""
       \/ First.text.kind = "dict" /\ First.text.body # ""

TraceOps == [i \in 1..Len(last.trace) |-> last.trace[i].op]

Fallbacks == {ConfigFallback, TechFallback}

\* C1: an event whose first message is self-sent gets status `ignored`, and
\* its handling calls neither save_conversation nor generate_response nor
\* send_whatsapp_message and issues no request, whatever the handle and the
\* credentials are.
C1_SelfSentIgnored ==
    (Handled /\ last.webhook_data.messages # <<>> /\ First.from_me)
        => /\ last.result.status = "ignored"
           /\ last.trace = <<>>
           /\ last.requests = <<>>

\* C1 witness: a self-sent message with sender and text, ignored while the
\* database is connected and both credentials are set.
C1_Witness ==
    /\ Handled
    /\ last.webhook_data.messages # <<>>
    /\ First.from_me /\ First.from # <<>> /\ First.body # ""
    /\ last.result.status = "ignored"
    /\ db_conn = "ok" /\ openai_api_key /\ whatsapp_token

\* C2: handling an event with no messages answers `no_message`, calls
\* nothing, issues no request and leaves the table and the handles as they
\* were.
C2_NoMessageNoEffect ==
    [][(last'.op = "process_webhook" /\ last'.webhook_data.messages = <<>>)
        => /\ last'.result.status = "no_message"
           /\ last'.trace = <<>>
           /\ last'.requests = <<>>
           /\ UNCHANGED <<conversations, db_conn, connection, clock>>]_vars

\* C2 witness: `no_message` answered while the handle is None, the server is
\* reachable and the table holds rows.
C2_Witness ==
    /\ Handled
    /\ last.webhook_data.messages = <<>>
    /\ last.result.status = "no_message"
    /\ db_conn = "none" /\ dbUp /\ conversations # <<>>

\* C3: on the normal path the handler calls save_conversation, then
\* generate_response, then send_whatsapp_message, each once, answers
\* `processed`, and the response it returns is the text generate_response
\* returned and the text given to send_whatsapp_message.
C3_PersistGenerateDispatch ==
    NormalPath
        => /\ TraceOps = <<"save_conversation", "generate_response",
                           "send_whatsapp_message">>
           /\ last.result.status = "processed"
           /\ last.result.response = last.trace[2].ret
           /\ last.trace[3].text = last.trace[2].ret
           /\ \A i \in 1..3 :
                /\ last.trace[i].phone_number = First.from
                /\ i < 3 => last.trace[i].text \in {First.body, First.text.body}

\* C3 witness: a processed event whose reply came from the completion call
\* and was accepted by the gateway, after the row was stored.
C3_Witness ==
    /\ NormalPath
    /\ last.result.status = "processed"
    /\ last.trace[1].ok /\ last.trace[2].ok /\ last.trace[3].ok
    /\ last.result.response \in Replies

\* C4: on the normal path a failing dependency stops nothing: generate and
\* dispatch are called when the save did not store the row; the dispatcher is
\* given a fallback sentence when the completion call failed; and the event
\* is `processed` with the generated text when the dispatch failed.
C4_FailuresDoNotBlock ==
    NormalPath
        => /\ Len(last.trace) = 3
           /\ last.result.status = "processed"
           /\ ~last.trace[1].ok
                => /\ last.trace[2].op = "generate_response"
                   /\ last.trace[3].op = "send_whatsapp_message"
           /\ last.trace[2].outcome \notin {"ok"}
                => /\ last.trace[3].op = "send_whatsapp_message"
                   /\ last.trace[3].text \in Fallbacks
           /\ ~last.trace[3].ok
                => last.result.response = last.trace[2].ret

\* C4 witness: one event in which the save, the completion call and the
\* dispatch all failed, with the server unreachable.
C4_Witness ==
    /\ NormalPath
    /\ ~dbUp /\ db_conn = "none"
    /\ ~last.trace[1].ok
    /\ last.trace[2].outcome = "timeout"
    /\ last.trace[3].outcome = "raises"
    /\ last.result.status = "processed"

\* C5: generate_response answers with the "being configured" sentence when
\* the credential is missing and with the "technical difficulties" sentence
\* when the call failed: non-success status, timeout or network error.
C5_FallbackByFailureKind ==
    (Handled /\ Len(last.trace) >= 2)
        => /\ last.trace[2].outcome = "not_called"
                => last.trace[2].ret = ConfigFallback
           /\ last.trace[2].outcome \in {"non200", "timeout", "network"}
                => last.trace[2].ret = TechFallback

\* C6 as stated: generate_response does not raise and returns a fixed
\* fallback sentence on a missing credential, a failed completion call, and
\* also whenever reading the history failed.
C6_FallbackOnHistoryFailure ==
    (Handled /\ Len(last.trace) >= 2)
        => /\ ~last.trace[2].raised
           /\ (\/ last.trace[2].outcome # "ok"
               \/ last.hist_failed)
                => (last.trace[2].ret \in Fallbacks /\ last.trace[2].ret # "")

\* C6 amended: generate_response does not raise, whatever the handle is and
\* however the history read ends, and returns a non-empty fixed fallback
\* sentence whenever the credential is missing or the completion call did not
\* succeed (other status, timeout, network error, malformed body).
C6_NeverRaises ==
    (Handled /\ Len(last.trace) >= 2)
        => /\ ~last.trace[2].raised
           /\ last.trace[2].ret # Null
           /\ last.trace[2].outcome # "ok"
                => (last.trace[2].ret \in Fallbacks /\ last.trace[2].ret # "")

\* C6 witness: the completion call timed out after the history read failed
\* on a dead connection, and the fallback sentence came back.
C6_Witness ==
    /\ Handled /\ Len(last.trace) >= 2
    /\ last.trace[2].outcome = "timeout"
    /\ last.hist_failed
    /\ last.trace[2].ret = ConfigFallback

-----------------------------------------------------------------------------
(* Properties of the conversation store *)

\* a history query has just run its SELECT
Queried == last.op = "history" /\ last.ok

\* the rows of the queried pair
PairRows == Where(conversations, last.phone_number, last.client)

SameTurn(e, row) ==
    /\ e.timestamp = row.timestamp
    /\ e.message_text = row.message_text
    /\ e.response_text = row.response_text

Stamps(h) == {h[i].timestamp : i \in 1..Len(h)}

\* the element of a non-empty result that is latest in time
MostRecent(h) ==
    CHOOSE e \in {h[i] : i \in 1..Len(h)} :
        \A i \in 1..Len(h) : h[i].timestamp <= e.timestamp

\* C7: a history query with limit N, by either implementation, returns at
\* most N turns, all of the queried (tenant, counterpart) pair, namely the N
\* most recent ones, in ascending order of timestamp.
C7_RecentAscending ==
    Queried
        => LET h == last.history
           IN  /\ Len(h) = Min(last.limit, Cardinality(PairRows))
               /\ \A k \in 1..Len(h) :
                    \E i \in PairRows : SameTurn(h[k], conversations[i])
               /\ \A i \in PairRows :
                    conversations[i].timestamp \notin Stamps(h)
                        => \A k \in 1..Len(h) :
                             conversations[i].timestamp < h[k].timestamp
               /\ \A j, k \in 1..Len(h) :
                    j < k => h[j].timestamp < h[k].timestamp

\* C8: when the latest append was for a pair, a history query for that pair
\* with limit >= 1 returns a non-empty sequence whose most recent element is
\* the turn appended; the bot's query has it in last place.
C8_RoundTrip ==
    (/\ Queried
     /\ last.limit >= 1
     /\ conversations # <<>>
     /\ Len(conversations) \in PairRows)
        => LET h == last.history
               t == conversations[Len(conversations)]
           IN  /\ h # <<>>
               /\ SameTurn(MostRecent(h), t)
               /\ last.who = "bot" => SameTurn(h[Len(h)], t)

\* C8 witness: the pair already had a turn, one more was appended, and a
\* query with limit 1 returned just the appended turn.
C8_Witness ==
    /\ Queried
    /\ last.limit = 1
    /\ Cardinality(PairRows) >= 2
    /\ Len(conversations) \in PairRows
    /\ Len(last.history) = 1
    /\ SameTurn(last.history[1], conversations[Len(conversations)])

Handle(who) == IF who = "bot" THEN db_conn ELSE connection

\* C9: a store operation that fails on the database leaves its component's
\* handle disconnected (None), and a save that follows a failure reopens the
\* handle, so it stores its row once the server is reachable again.
C9_FailureResetsHandle ==
    last.op \in {"save", "history"}
        => /\ ~last.ok => Handle(last.who) = "none"
           /\ (/\ last.op = "save"
               /\ last.after_failure
               /\ dbUp
               /\ ~last.fail) => last.ok

-----------------------------------------------------------------------------
(* Properties of the HTTP handler and the dispatcher *)

Graceful == {"no_message", "ignored", "no_valid_message", "processed"}

\* C14: an exception raised while an event is handled is reported to the
\* caller as a body with status `error` under HTTP status 500; the graceful
\* outcomes (no_message, ignored, no_valid_message, processed) are answered
\* with HTTP 200 and an unknown path with 404.
C14_ErrorsAnswered500 ==
    /\ Handled
        => /\ last.http.body = last.result
           /\ last.result.status = "error" => last.http.code = 500
           /\ last.result.status \in Graceful => last.http.code = 200
    /\ (last.op = "do_POST" /\ ~WebhookPath(last.path))
        => last.http.code = 404

\* the event just handled reached the dispatch; Sent is that call
Dispatched == Handled /\ Len(last.trace) = 3

Sent == last.trace[3]

\* the requests of the event that went to the messaging gateway
GatewayRequests == SelectSeq(last.requests, LAMBDA q : q.url = WhapiUrl)

\* C16: send_whatsapp_message never raises and returns true exactly when
\* the gateway answered with status 200 or 201; without the messaging
\* credential it returns false and makes no gateway request, and any other
\* status code or an exception of the request gives false.
C16_TrueOnlyOnSuccessCode ==
    Dispatched
        => /\ ~Sent.raised
           /\ Sent.ok <=> (Sent.outcome = "status" /\ Sent.code \in {200, 201})
           /\ ~whatsapp_token
                => /\ Sent.outcome = "not_called"
                   /\ GatewayRequests = <<>>
           /\ whatsapp_token => Len(GatewayRequests) = 1

\* a dispatch whose gateway request raised: the call returned false and the
\* event was processed
C16_Witness ==
    /\ Dispatched
    /\ Sent.outcome = "raises"
    /\ ~Sent.ok
    /\ last.result.status = "processed"

\* a recipient without one trailing suffix
Bare(phone_number) ==
    IF EndsWith(phone_number, Suffix)
    THEN SubSeq(phone_number, 1, Len(phone_number) - Len(Suffix))
    ELSE phone_number

\* C17: the address passed to the gateway is the recipient with the suffix
\* `@s.whatsapp.net` at its end once, whether the recipient came without the
\* suffix or with it, and normalizing that address again leaves it unchanged.
C17_NormalizeIdempotent ==
    (Dispatched /\ GatewayRequests # <<>>)
        => LET to == GatewayRequests[1].to
           IN  /\ EndsWith(to, Suffix)
               /\ to = Bare(Sent.phone_number) \o Suffix
               /\ Normalize(to) = to

\* a reply dispatched to a recipient that came with the suffix
C17_Witness ==
    /\ Dispatched
    /\ GatewayRequests # <<>>
    /\ EndsWith(Sent.phone_number, Suffix)
    /\ GatewayRequests[1].to = Sent.phone_number

\* the event just handled has a first message that is not self-sent
Inbound ==
    /\ Handled
    /\ last.webhook_data.messages # <<>>
    /\ ~First.from_me

NoSender == First.from = <<>>

\* text at the top-level `body`, or at `text.body`
TextAtBody == First.body # ""

TextAtTextBody == First.text.kind = "dict" /\ First.text.body # ""

\* `body` is empty and `text` is present but is no object
TextNoObject == First.body = "" /\ First.text.kind = "scalar"

NothingCalled == last.trace = <<>> /\ last.requests = <<>>

\* C18 as stated: a first message that is not self-sent and has no sender,
\* or no text at `body` and at `text.body`, ends with `no_valid_message`
\* and no append, generate or dispatch; text at either place with a sender
\* is processed.
C18_NoValidMessage ==
    Inbound
        => /\ (NoSender \/ (~TextAtBody /\ ~TextAtTextBody))
                => /\ last.result.status = "no_valid_message"
                   /\ NothingCalled
           /\ (~NoSender /\ (TextAtBody \/ TextAtTextBody))
                => last.result.status = "processed"

\* C18 amended: the same, for a first message whose `text`, when `body` is
\* empty, is absent or an object; when it is something else the event ends
\* with status `error`, also without append, generate or dispatch.
C18_NoValidMessageWellFormed ==
    Inbound
        => /\ (~TextNoObject /\ (NoSender \/ (~TextAtBody /\ ~TextAtTextBody)))
                => /\ last.result.status = "no_valid_message"
                   /\ NothingCalled
           /\ TextNoObject
                => /\ last.result.status = "error"
                   /\ NothingCalled
           /\ (~NoSender /\ (TextAtBody \/ TextAtTextBody))
                => last.result.status = "processed"

\* a message with a sender and an empty text at both places, answered
\* `no_valid_message`
C18_Witness ==
    /\ Inbound
    /\ ~NoSender
    /\ First.text.kind = "dict"
    /\ ~TextAtBody /\ ~TextAtTextBody
    /\ last.result.status = "no_valid_message"

\* the environments one handling can meet
Envs ==
    EnvsFor(BotState, dbUp, openai_api_key, whatsapp_token)
        \cup {[save_fail |-> FALSE, hist_fail |-> FALSE,
                completion |-> NoCompletion, gateway |-> NoGateway]}

\* C19: an event carrying several messages is handled as the event carrying
\* its first message alone would be, in the same state and environment: same
\* status and reply, same calls, same requests, same table and handle
\* afterwards; at most one turn is appended and at most one reply is
\* dispatched.
C19_FirstMessageOnly ==
    [][(last'.op = "process_webhook"
            /\ Len(last'.webhook_data.messages) >= 2)
        => /\ \E env \in Envs :
                LET alone == [messages |->
                                <<last'.webhook_data.messages[1]>>]
                    r == process_webhook(BotState, dbUp, openai_api_key,
                                         whatsapp_token, env, alone)
                IN  /\ r.result = last'.result
                    /\ r.trace = last'.trace
                    /\ r.requests = last'.requests
                    /\ r.st.conversations = conversations'
                    /\ r.st.db_conn = db_conn'
           /\ Len(conversations') <= Len(conversations) + 1
           /\ Len(SelectSeq(last'.requests,
                            LAMBDA q : q.url = WhapiUrl)) <= 1]_vars

\* an event of two messages whose first is self-sent and whose second is a
\* valid inbound message: ignored, nothing called
C19_Witness ==
    /\ Handled
    /\ Len(last.webhook_data.messages) = 2
    /\ First.from_me
    /\ ~last.webhook_data.messages[2].from_me
    /\ last.result.status = "ignored"
    /\ last.trace = <<>>

\* the event just handled went through persist, generate, dispatch
Saved == last.trace[1]

Generated == last.trace[2]

\* the prompts sent to the completion endpoint for the event
Prompts == SelectSeq(last.requests, LAMBDA q : q.url = OpenAiUrl)

NoReplyStored ==
    \A i \in 1..Len(conversations) : conversations[i].response_text = Null

SavedBeforeGenerated ==
    /\ Saved.op = "save_conversation"
    /\ Generated.op = "generate_response"

NoAssistantLine ==
    \A i \in 1..Len(Prompts) :
        \A j \in 1..Len(Prompts[i].prompt) :
            Prompts[i].prompt[j].line # "Assistant"

\* the history read for the prompt ends with the turn just appended
EndsWithCurrent ==
    LET h == Generated.history
    IN  /\ h # <<>>
        /\ h[Len(h)] = BotColumns(conversations[Len(conversations)])
        /\ h[Len(h)].message_text = Saved.text

\* C20 as stated: no row of the table ever carries a reply; the message is
\* saved before the history is read, every history read for a prompt ends
\* with the current message, and no prompt has an "Assistant:" line.
C20_ReplyNeverStored ==
    /\ NoReplyStored
    /\ (Handled /\ Len(last.trace) >= 2)
        => /\ SavedBeforeGenerated
           /\ NoAssistantLine
           /\ Prompts # <<>> => EndsWithCurrent

\* C20 amended: the history ends with the current message when the append
\* and the history read both succeeded.
C20_ReplyNeverStoredWhenSaved ==
    /\ NoReplyStored
    /\ (Handled /\ Len(last.trace) >= 2)
        => /\ SavedBeforeGenerated
           /\ NoAssistantLine
           /\ (Prompts # <<>> /\ Saved.ok /\ ~last.hist_failed)
                => EndsWithCurrent

\* a second turn of one customer: the history read for the prompt holds
\* both messages, the current one last, and no reply
C20_Witness ==
    /\ Handled
    /\ Len(last.trace) >= 2
    /\ Saved.ok
    /\ Prompts # <<>>
    /\ Len(Generated.history) = 2
    /\ EndsWithCurrent
    /\ NoAssistantLine

-----------------------------------------------------------------------------
(* Properties of the knowledge search *)

\* C10: every search_knowledge(query, top_k) with top_k >= 0 returns a list
\* of at most top_k results.
C10_AtMostTopK ==
    last.op = "search_knowledge"
        => /\ ~last.raised
           /\ Len(last.results) <= last.top_k

\* the documents whose similarity to the query is above the threshold
AboveThreshold(similarities) ==
    {i \in 1..Len(similarities) : similarities[i] > Threshold}

C12_SentinelIffNoResults ==
    last.op = "get_relevant_context"
        => /\ (last.context = NoInformation) <=> (last.results = <<>>)
           /\ last.results # <<>>
                => last.context = JoinParts(last.results, 1)

\* C13: enhance_response_with_knowledge returns the base reply unchanged
\* unless the search matched documents and the base reply has fewer than 50
\* words; what it appends is the "Additional information" heading followed
\* by the block of matched documents.
C13_AppendsOnlyMatchedContext ==
    (/\ last.op = "enhance_response_with_knowledge"
     /\ last.ret # last.base_response)
        => /\ last.results # <<>>
           /\ WordCount(last.base_response) < ShortReplyWords
           /\ last.ret = last.base_response
                            \o <<AdditionalInformation>>
                            \o JoinParts(last.results, 1)

-----------------------------------------------------------------------------
(* Properties of the knowledge store *)

\* C15: after load the store holds the five default documents whenever the
\* knowledge-base directory does not exist, or exists but yields no
\* documents.
C15_FallbackToDefaults ==
    (\/ ~rag.knowledge_base.exists
     \/ LoadFrom(rag.knowledge_base.files, 1) = <<>>)
        => rag.documents = default_docs
=============================================================================
